---------------------------- MODULE Spec2Model ----------------------------
(***************************************************************************)
(* auth0-mcp-server: the token service (dist/token-service.js), the        *)
(* configuration loader (src/config.ts), the MCP server's request handlers *)
(* (server.ts) and the per-tool API handlers (tools-*.ts).                 *)
(*                                                                         *)
(* Three specifications share the variables:                               *)
(*   TokenSpec    the token service: getToken and its cache                *)
(*   ServerSpec   startServer, tools/list and tools/call                   *)
(*   HandlerSpec  the API handlers called directly with any config         *)
(***************************************************************************)
EXTENDS Integers, Sequences, FiniteSets, TLC

(***************************************************************************)
(* Bounds of the model.                                                    *)
(***************************************************************************)
\* how many times the clock may advance in one behaviour
MaxTicks == 2
\* how many items a list response may hold
MaxItems == 2

\* the most secrets a client sends in one auth0_update_action call
MaxSecrets == 2

\* the longest domain string given to formatDomain
MaxDomainLen == 4

\* how many times formatDomain is applied in a row
MaxApplications == 2

\* the largest `total` a paged response reports
MaxTotal == 4

(***************************************************************************)
(* Program constants.                                                      *)
(***************************************************************************)
\* token-service.js:16  const DEFAULT_TIMEOUT_MS = 10000
DEFAULT_TIMEOUT_MS == 10000
\* token-service.js:18  const CACHE_TTL_MS = 55 * 60 * 1000
CACHE_TTL_MS == 55 * 60 * 1000

VARIABLES
    \* ---- token service --------------------------------------------------
    envToken,     \* process.env.AUTH0_TOKEN ("" when unset)
    cliPath,      \* process.env.AUTH0_CLI_PATH: "unset", "missing" (set, no such file), "exists"
    tokenCache,   \* the module-level cache entry, or NullCache
    now,          \* Date.now()
    ticks,        \* how many times the clock has advanced
    call,         \* the getToken call in progress or last finished
    second,       \* a getToken call made by another caller while `call` is in progress
    \* ---- server ---------------------------------------------------------
    envDomain,    \* process.env.AUTH0_DOMAIN ("" when unset)
    srv,          \* "init", "running", "exited"
    config,       \* the `config` variable of startServer
    request,      \* the tools/call request being handled, or NoRequest
    expired,      \* the tokens the tenant no longer accepts
    resp,         \* what the last request handler (or direct handler call) returned
    \* ---- tools-common --------------------------------------------------
    formatted     \* a domain string and what formatDomain has made of it

vars == <<envToken, cliPath, tokenCache, now, ticks, call, second, envDomain, srv, config, request, expired, resp, formatted>>
tokenVars == <<envToken, cliPath, tokenCache, now, ticks, call, second>>
serverVars == <<envDomain, srv, request, config, expired, resp, formatted>>

(***************************************************************************)
(* Token service: dist/token-service.js                                    *)
(***************************************************************************)
\* `let tokenCache = null`
NullCache == [set |-> FALSE, token |-> "", expiresAt |-> 0]

\* What a spawned `auth0 api get-token` can do: close with exit code 0 and a
\* token (or nothing) on stdout, close with another exit code, fail to spawn,
\* or not close before the timer fires.
ProcOutcomes(tok) ==
    { [kind |-> "close", code |-> 0, stdout |-> tok],
      [kind |-> "close", code |-> 0, stdout |-> "\n"],
      [kind |-> "close", code |-> 1, stdout |-> ""],
      [kind |-> "error", code |-> 1, stdout |-> ""],
      [kind |-> "hang",  code |-> 0, stdout |-> ""],
      [kind |-> "errorClose", code |-> 1, stdout |-> ""],
      [kind |-> "hangClose",  code |-> 1, stdout |-> ""] }

\* the events the promise executor's callbacks see, in order: a spawn error
\* may be followed by 'close', and a killed process closes after the kill
ProcEvents(p) ==
    CASE p.kind = "close" -> <<"close">>
      [] p.kind = "error" -> <<"error">>
      [] p.kind = "errorClose" -> <<"error", "close">>
      [] p.kind = "hang" -> <<"timeout">>
      [] p.kind = "hangClose" -> <<"timeout", "close">>

\* the command had not closed when the timer fired
TimedOut(p) == ProcEvents(p)[1] = "timeout"

\* String.prototype.trim on the outputs above
Trim(s) ==
    CASE s = "tLocal\n" -> "tLocal"
      [] s = "tPath\n"  -> "tPath"
      [] s = "\n"       -> ""
      [] OTHER          -> s

\* the promise of getTokenWithTimeout before any event
PendingPromise ==
    [settled |-> "pending", value |-> "", killed |-> FALSE, elapsed |-> 0, timer |-> TRUE]

\* resolve / reject: only the first call settles a promise
Settle(st, how, value) ==
    IF st.settled = "pending" THEN [st EXCEPT !.settled = how, !.value = value] ELSE st

\* one callback of getTokenWithTimeout runs
\*   "timeout": childProcess.kill(); reject(...)    (only while the timer is armed)
\*   "close":   clearTimeout; resolve(token or null)
\*   "error":   clearTimeout; resolve(null)
OnEvent(st, e, p) ==
    IF e = "timeout"
    THEN IF st.timer
         THEN Settle([st EXCEPT !.killed = TRUE, !.timer = FALSE,
                                !.elapsed = DEFAULT_TIMEOUT_MS], "reject", "")
         ELSE st
    ELSE IF e = "close"
         THEN Settle([st EXCEPT !.timer = FALSE], "resolve",
                     IF p.code = 0 THEN Trim(p.stdout) ELSE "")
         ELSE Settle([st EXCEPT !.timer = FALSE], "resolve", "")

RECURSIVE RunEvents(_, _, _, _)
RunEvents(st, events, i, p) ==
    IF i > Len(events) THEN st
    ELSE RunEvents(OnEvent(st, events[i], p), events, i + 1, p)

\* a timer callback that rejects without killing the child
getTokenWithTimeout_noKill(p) ==
    [RunEvents(PendingPromise, ProcEvents(p), 1, p) EXCEPT !.killed = FALSE]

\* getTokenWithTimeout(command): the promise's settlement.
\*   settled "resolve" with value = token or "" (null); "reject" on timeout.
\*   killed: childProcess.kill() was called; elapsed: ms until settlement.
getTokenWithTimeout(p) == RunEvents(PendingPromise, ProcEvents(p), 1, p)

\* a cacheToken that stamps the entry with the command timeout instead of the TTL
cacheToken_shortLived(token, t) ==
    [set |-> TRUE, token |-> token, expiresAt |-> t + DEFAULT_TIMEOUT_MS]

\* cacheToken(token) at time t
cacheToken(token, t) == [set |-> TRUE, token |-> token, expiresAt |-> t + CACHE_TTL_MS]

\* A config file on disk: absent, unparsable, or JSON with an optional root
\* access_token and an optional default-tenant access_token, whose
\* expires_at lies in the past or in the future.
FileStates ==
    { [exists |-> FALSE, parses |-> FALSE, root |-> "", tenant |-> "", expires_at |-> "future"],
      [exists |-> TRUE,  parses |-> FALSE, root |-> "", tenant |-> "", expires_at |-> "future"] }
    \cup [exists : {TRUE}, parses : {TRUE}, root : {"", "tRoot"}, tenant : {""},
          expires_at : {"future"}]
    \cup [exists : {TRUE}, parses : {TRUE}, root : {"", "tRoot"}, tenant : {"tTenant"},
          expires_at : {"past", "future"}]

\* extractTokenFromConfig(): the loop over configPaths, from index i
RECURSIVE extractFrom(_, _)
extractFrom(files, i) ==
    IF i > Len(files) THEN ""
    ELSE LET f == files[i] IN
         IF f.exists /\ f.parses /\ f.root # "" THEN f.root
         ELSE IF f.exists /\ f.parses /\ f.tenant # "" THEN f.tenant
         ELSE extractFrom(files, i + 1)

extractTokenFromConfig(files) == extractFrom(files, 1)

\* whether the token extractFrom returns is a default-tenant token whose
\* expires_at has passed
RECURSIVE staleFrom(_, _)
staleFrom(files, i) ==
    IF i > Len(files) THEN FALSE
    ELSE LET f == files[i] IN
         IF f.exists /\ f.parses /\ f.root # "" THEN FALSE
         ELSE IF f.exists /\ f.parses /\ f.tenant # "" THEN f.expires_at = "past"
         ELSE staleFrom(files, i + 1)

\* an entry still taken as valid at the instant of its expiry
cacheValid_inclusive(c, t) == c.set /\ c.expiresAt >= t

\* the comparison turned around
cacheValid_flipped(c, t) == c.set /\ c.expiresAt < t

\* `tokenCache && tokenCache.expiresAt > Date.now()`
cacheValid(c, t) == c.set /\ c.expiresAt > t

\* an entry that has not reached its expiry at time t
Unexpired(c, t) == c.set /\ t < c.expiresAt

IdleCall ==
    [pc |-> "idle", force |-> FALSE, tried |-> <<>>, result |-> "", threw |-> FALSE,
     cacheBefore |-> NullCache, at |-> 0, prevHit |-> FALSE, prevResult |-> "",
     killed |-> {}, timedOut |-> {}, stale |-> FALSE]

\* the record of a call that starts now
NewCall(force) ==
    [pc |-> "start", force |-> force, tried |-> <<>>, result |-> "", threw |-> FALSE,
     cacheBefore |-> tokenCache, at |-> now,
     prevHit |-> (call.pc = "done" /\ ~call.force /\ ~call.threw
                  /\ Unexpired(call.cacheBefore, call.at)),
     prevResult |-> (IF call.pc = "done" THEN call.result ELSE ""),
     killed |-> {}, timedOut |-> {}, stale |-> FALSE]

Returned(c, tok) == [c EXCEPT !.pc = "done", !.result = tok]
Tried(c, src, res) == [c EXCEPT !.tried = Append(@, [src |-> src, res |-> res])]

\* the log of a CLI attempt: what it yielded, whether its command timed
\* out and whether the child was killed
TriedCommand(c, src, p, r) ==
    [Tried(c, src, IF r.settled = "resolve" THEN r.value ELSE "") EXCEPT
        !.killed = IF r.killed THEN @ \cup {src} ELSE @,
        !.timedOut = IF TimedOut(p) THEN @ \cup {src} ELSE @]

\* getToken whose cache test forgets `!forceRefresh`
getToken_cacheOnForce(forceRefresh) ==
    /\ call.pc \in {"idle", "done"}
    /\ LET c == NewCall(forceRefresh) IN
       IF envToken # "" /\ ~forceRefresh
       THEN call' = Returned(c, envToken)
       ELSE IF cacheValid(tokenCache, now)
            THEN call' = Returned(c, tokenCache.token)
            ELSE call' = [c EXCEPT !.pc = IF cliPath = "exists" THEN "local" ELSE "path"]
    /\ UNCHANGED <<envToken, cliPath, tokenCache, now, ticks>>
    /\ UNCHANGED <<serverVars, second>>

\* getToken(forceRefresh), lines 23-43: the environment token, the cache,
\* then the first source of the chain.
getToken(forceRefresh) ==
    /\ call.pc \in {"idle", "done"}
    /\ LET c == NewCall(forceRefresh) IN
       IF envToken # "" /\ ~forceRefresh
       THEN call' = Returned(c, envToken)
       ELSE IF ~forceRefresh /\ cacheValid(tokenCache, now)
            THEN call' = Returned(c, tokenCache.token)
            ELSE call' = [c EXCEPT !.pc = IF cliPath = "exists" THEN "local" ELSE "path"]
    /\ UNCHANGED <<envToken, cliPath, tokenCache, now, ticks>>
    /\ UNCHANGED <<serverVars, second>>

\* a CLI attempt that caches the token but forgets to return
cliAttempt_noReturn(src, p, next) ==
    LET r == getTokenWithTimeout(p)
        t == now + r.elapsed
        c == TriedCommand(call, src, p, r)
    IN /\ r.elapsed > 0 => ticks < MaxTicks
       /\ now' = t
       /\ ticks' = IF r.elapsed > 0 THEN ticks + 1 ELSE ticks
       /\ tokenCache' = IF r.settled = "resolve" /\ r.value # ""
                        THEN cacheToken(r.value, t) ELSE tokenCache
       /\ call' = [c EXCEPT !.pc = next, !.result = r.value]
       /\ UNCHANGED <<envToken, cliPath>>
       /\ UNCHANGED <<serverVars, second>>

\* One CLI attempt of the chain (Method 1, lines 38-53; Method 2, lines 55-66):
\* a token is cached and returned, anything else falls to `next`.
cliAttempt(src, p, next) ==
    LET r == getTokenWithTimeout(p)
        t == now + r.elapsed
        c == TriedCommand(call, src, p, r)
    IN /\ r.elapsed > 0 => ticks < MaxTicks
       /\ now' = t
       /\ ticks' = IF r.elapsed > 0 THEN ticks + 1 ELSE ticks
       /\ IF r.settled = "resolve" /\ r.value # ""
          THEN /\ tokenCache' = cacheToken(r.value, t)
               /\ call' = Returned(c, r.value)
          ELSE /\ tokenCache' = tokenCache
               /\ call' = [c EXCEPT !.pc = next]
       /\ UNCHANGED <<envToken, cliPath>>
       /\ UNCHANGED <<serverVars, second>>

\* Method 1: the CLI at AUTH0_CLI_PATH
getTokenLocal ==
    /\ call.pc = "local"
    /\ \E p \in ProcOutcomes("tLocal\n") : cliAttempt("local", p, "path")

\* Method 2: `auth0` from PATH
getTokenPath ==
    /\ call.pc = "path"
    /\ \E p \in ProcOutcomes("tPath\n") : cliAttempt("path", p, "config")

\* a Method 3 that drops the cache entry when every source has failed
getTokenConfig_clearsOnFailure ==
    /\ call.pc = "config"
    /\ \E files \in [1..2 -> FileStates] :
         LET configToken == extractTokenFromConfig(files)
             c == [Tried(call, "config", configToken) EXCEPT !.stale = staleFrom(files, 1)]
         IN IF configToken # ""
            THEN /\ tokenCache' = cacheToken(configToken, now)
                 /\ call' = Returned(c, configToken)
            ELSE /\ tokenCache' = NullCache
                 /\ call' = [c EXCEPT !.pc = "done", !.threw = TRUE]
    /\ UNCHANGED <<envToken, cliPath, now, ticks>>
    /\ UNCHANGED <<serverVars, second>>

\* Method 3, lines 67-81: the config files, then the terminal error
getTokenConfig ==
    /\ call.pc = "config"
    /\ \E files \in [1..2 -> FileStates] :
         LET configToken == extractTokenFromConfig(files)
             c == [Tried(call, "config", configToken) EXCEPT !.stale = staleFrom(files, 1)]
         IN IF configToken # ""
            THEN /\ tokenCache' = cacheToken(configToken, now)
                 /\ call' = Returned(c, configToken)
            ELSE /\ tokenCache' = tokenCache
                 /\ call' = [c EXCEPT !.pc = "done", !.threw = TRUE]
    /\ UNCHANGED <<envToken, cliPath, now, ticks>>
    /\ UNCHANGED <<serverVars, second>>

\* The clock advances between calls.
TickDeltas == {DEFAULT_TIMEOUT_MS, CACHE_TTL_MS - DEFAULT_TIMEOUT_MS}

Tick ==
    /\ call.pc \in {"idle", "done"}
    /\ ticks < MaxTicks
    /\ \E d \in TickDeltas : now' = now + d
    /\ ticks' = ticks + 1
    /\ UNCHANGED <<envToken, cliPath, tokenCache, call>>
    /\ UNCHANGED <<serverVars, second>>

(***************************************************************************)
(* Tool registry: tools.ts and the per-family tools-*.ts                   *)
(***************************************************************************)
APPLICATION_TOOLS ==
    << "auth0_list_applications", "auth0_get_application", "auth0_create_application",
       "auth0_update_application", "auth0_delete_application", "auth0_search_applications" >>

RESOURCE_SERVER_TOOLS ==
    << "auth0_list_resource_servers", "auth0_get_resource_server",
       "auth0_create_resource_server", "auth0_update_resource_server",
       "auth0_delete_resource_server" >>

ACTION_TOOLS ==
    << "auth0_list_actions", "auth0_get_action", "auth0_create_action",
       "auth0_update_action", "auth0_delete_action", "auth0_deploy_action" >>

LOG_TOOLS == << "auth0_list_logs", "auth0_get_log", "auth0_search_logs" >>

FORM_TOOLS ==
    << "auth0_list_forms", "auth0_get_form", "auth0_create_form", "auth0_update_form",
       "auth0_delete_form", "auth0_publish_form" >>

\* TOOLS: the concatenation of the family lists
TOOLS == APPLICATION_TOOLS \o RESOURCE_SERVER_TOOLS \o ACTION_TOOLS \o LOG_TOOLS \o FORM_TOOLS

Range(s) == { s[i] : i \in DOMAIN s }

\* the own keys of the per-family handler records
APPLICATION_HANDLERS ==
    {"auth0_list_applications", "auth0_get_application", "auth0_create_application",
     "auth0_update_application", "auth0_delete_application", "auth0_search_applications"}

RESOURCE_SERVER_HANDLERS ==
    {"auth0_list_resource_servers", "auth0_get_resource_server",
     "auth0_create_resource_server", "auth0_update_resource_server",
     "auth0_delete_resource_server"}

ACTION_HANDLERS ==
    {"auth0_list_actions", "auth0_get_action", "auth0_create_action",
     "auth0_update_action", "auth0_delete_action", "auth0_deploy_action"}

LOG_HANDLERS == {"auth0_list_logs", "auth0_get_log", "auth0_search_logs"}

\* a forms handler record without the publish handler
FORM_HANDLERS_noPublish ==
    {"auth0_list_forms", "auth0_get_form", "auth0_create_form", "auth0_update_form",
     "auth0_delete_form"}

FORM_HANDLERS ==
    {"auth0_list_forms", "auth0_get_form", "auth0_create_form", "auth0_update_form",
     "auth0_delete_form", "auth0_publish_form"}

\* HANDLERS = { ...APPLICATION_HANDLERS, ... }: its own keys
HANDLERS ==
    APPLICATION_HANDLERS \cup RESOURCE_SERVER_HANDLERS \cup ACTION_HANDLERS
        \cup LOG_HANDLERS \cup FORM_HANDLERS

\* HANDLERS is an object literal, so HANDLERS[toolName] also finds what
\* Object.prototype holds: functions, and the __proto__ accessor's object.
ObjectPrototypeFunctions == {"toString", "constructor", "hasOwnProperty"}
ObjectPrototypeObjects == {"__proto__"}

\* what the expression HANDLERS[toolName] evaluates to
handlerLookup(toolName) ==
    IF toolName \in HANDLERS THEN "handler"
    ELSE IF toolName \in ObjectPrototypeFunctions THEN "inheritedFunction"
    ELSE IF toolName \in ObjectPrototypeObjects THEN "inheritedObject"
    ELSE "undefined"

\* inputSchema.required of each tool definition
schemaRequired(tool) ==
    CASE tool \in {"auth0_get_application", "auth0_update_application",
                   "auth0_delete_application"} -> {"client_id"}
      [] tool = "auth0_create_application" -> {"name", "app_type"}
      [] tool = "auth0_search_applications" -> {"name"}
      [] tool = "auth0_create_resource_server" -> {"name", "identifier"}
      [] tool = "auth0_create_action" -> {"name", "trigger_id", "code"}
      [] tool = "auth0_create_form" -> {"name", "type"}
      [] tool \in {"auth0_get_resource_server", "auth0_update_resource_server",
                   "auth0_delete_resource_server", "auth0_get_log",
                   "auth0_get_action", "auth0_update_action", "auth0_delete_action",
                   "auth0_deploy_action", "auth0_get_form", "auth0_update_form",
                   "auth0_delete_form", "auth0_publish_form"} -> {"id"}
      [] OTHER -> {}

(***************************************************************************)
(* API handlers: tools-*.ts, helpers of tools-common.ts                    *)
(***************************************************************************)
Line(k, v) == [k |-> k, v |-> v]

\* createErrorResponse(message)
createErrorResponse(text) == [isError |-> TRUE, text |-> text]
successResponse(text) == [isError |-> FALSE, text |-> text]

\* `!request.parameters.f`: undefined and the empty string are falsy
Falsy(params, f) == f \notin DOMAIN params \/ params[f] = ""

\* a validation block that tests the id parameters only
requiredChecks_idOnly(tool) ==
    IF "id" \in schemaRequired(tool) THEN <<"id">> ELSE <<>>

\* the parameters each handler tests with `if (!x) return createErrorResponse(...)`,
\* in the order of the tests
requiredChecks(tool) ==
    CASE tool \in {"auth0_get_application", "auth0_update_application",
                   "auth0_delete_application"} -> <<"client_id">>
      [] tool = "auth0_create_application" -> <<"name", "app_type">>
      [] tool = "auth0_search_applications" -> <<"name">>
      [] tool \in {"auth0_get_resource_server", "auth0_update_resource_server",
                   "auth0_delete_resource_server"} -> <<"id">>
      [] tool = "auth0_create_resource_server" -> <<"name", "identifier">>
      [] tool = "auth0_get_log" -> <<"id">>
      [] tool \in {"auth0_get_action", "auth0_update_action", "auth0_delete_action",
                   "auth0_deploy_action"} -> <<"id">>
      [] tool = "auth0_create_action" -> <<"name", "trigger_id", "code">>
      [] tool \in {"auth0_get_form", "auth0_update_form", "auth0_delete_form",
                   "auth0_publish_form"} -> <<"id">>
      [] tool = "auth0_create_form" -> <<"name", "type">>
      [] OTHER -> <<>>

\* the first failing test of a handler's validation block, "" when all pass:
\* the domain, then the required parameters
RECURSIVE firstMissing(_, _, _)
firstMissing(checks, params, i) ==
    IF i > Len(checks) THEN ""
    ELSE IF Falsy(params, checks[i]) THEN checks[i]
    ELSE firstMissing(checks, params, i + 1)

validate(tool, params, domain) ==
    IF domain = "" THEN <<Line("notSet", "AUTH0_DOMAIN")>>
    ELSE LET f == firstMissing(requiredChecks(tool), params, 1) IN
         IF f = "" THEN <<>> ELSE <<Line("required", f)>>

\* the list and search handlers, and the array field each looks for
ListTools ==
    {"auth0_list_applications", "auth0_search_applications", "auth0_list_resource_servers",
     "auth0_list_actions", "auth0_list_logs", "auth0_search_logs", "auth0_list_forms"}

arrayField(tool) ==
    CASE tool \in {"auth0_list_applications", "auth0_search_applications"} -> "clients"
      [] tool = "auth0_list_resource_servers" -> "resource_servers"
      [] tool = "auth0_list_actions" -> "actions"
      [] tool \in {"auth0_list_logs", "auth0_search_logs"} -> "logs"
      [] tool = "auth0_list_forms" -> "forms"
      [] OTHER -> "none"

\* auth0_list_applications and auth0_list_resource_servers read
\* responseData.<field> only; the others test Array.isArray(responseData) first
\* and return a "no results" text for an empty list
NamedArrayOnly == {"auth0_list_applications", "auth0_list_resource_servers"}

\* n table rows
Rows(n) == [i \in 1..n |-> Line("row", "item")]
IdLines(n) == [i \in 1..n |-> Line("id", "item")]

\* the table a list handler formats from n items
listTable(tool, n) ==
    <<Line("title", tool), Line("header", tool), Line("separator", tool)>> \o Rows(n)
        \o (IF n > 0
            THEN (IF tool \in {"auth0_list_applications", "auth0_list_resource_servers"}
                  THEN <<>> ELSE <<Line("note", "details")>>)
                 \o (IF tool \in {"auth0_list_logs", "auth0_search_logs"}
                     THEN <<>> ELSE <<Line("ids", tool)>> \o IdLines(n))
            ELSE <<>>)

\* Math.ceil(a / b) for b > 0
CeilDiv(a, b) == (a + b - 1) \div b

\* `request.parameters.f || d` for a numeric parameter
numberOr(params, f, d) == IF f \in DOMAIN params /\ params[f] # 0 THEN params[f] ELSE d

\* the lines a list handler writes between the table rows and the closing
\* notes.  body.total, body.page and body.per_page are 0 when the response
\* does not carry them.
\*   "page":     `*Page p of t ...*`
\*   "nextPage": the next-page invocation, v = what follows `page=`
\*   "nextFrom": the invocation of auth0_list_logs, which passes `from=`
paginationLines(tool, body, params) ==
    LET n == body.n
        total == IF body.total # 0 THEN body.total ELSE n
        page == body.page
        perPage == IF body.per_page # 0 THEN body.per_page ELSE n
    IN
    IF tool \in NamedArrayOnly
    THEN \* totalPages > 1 (0 / 0 is NaN, t / 0 is Infinity); the invocation
         \* is a single-quoted string, so `${nextPage}` is not substituted
         IF (IF perPage = 0 THEN total > 0 ELSE CeilDiv(total, perPage) > 1)
         THEN <<Line("page", ToString(page + 1)), Line("nextPage", "${nextPage}")>>
         ELSE <<>>
    ELSE IF tool = "auth0_list_logs"
    THEN IF n < total
         THEN <<Line("showing", ToString(n)), Line("nextFrom", "lastLogId")>>
         ELSE <<>>
    ELSE IF tool = "auth0_list_forms"
    THEN LET currentPage == numberOr(params, "page", 0)
             formsPerPage == numberOr(params, "per_page", 10)
         IN IF n < total
            THEN <<Line("page", ToString(currentPage + 1))>>
                 \o (IF currentPage + 1 < CeilDiv(total, formsPerPage)
                     THEN <<Line("nextPage", ToString(currentPage + 1))>> ELSE <<>>)
            ELSE <<>>
    ELSE \* auth0_search_applications, auth0_list_actions, auth0_search_logs
         IF n < total
         THEN <<Line("page", ToString(page + 1))>>
              \o (IF page + 1 < CeilDiv(total, perPage)
                  THEN <<Line("nextPage", ToString(page + 1))>> ELSE <<>>)
         ELSE <<>>

\* the per_page a list handler sends when the caller gives none
defaultPerPage(tool) ==
    IF tool \in {"auth0_list_applications", "auth0_list_resource_servers",
                 "auth0_list_actions"}
    THEN "5" ELSE "10"

\* the URLSearchParams a list handler builds from the paging parameters
\* (`x.toString()` of a supplied value, the default otherwise)
searchParams(tool, params) ==
    LET given(f) == f \in DOMAIN params
        pageQ == IF given("page") THEN ("page" :> ToString(params["page"])) ELSE <<>>
        perPageQ == "per_page" :> (IF given("per_page") THEN ToString(params["per_page"])
                                   ELSE defaultPerPage(tool))
        totalsQ == "include_totals" :> (IF given("include_totals")
                                        THEN params["include_totals"] ELSE "true")
        triggerQ == IF given("trigger_id") THEN ("triggerId" :> params["trigger_id"])
                    ELSE <<>>
    IN IF tool = "auth0_list_logs" THEN totalsQ
       ELSE IF tool = "auth0_list_actions" THEN pageQ @@ perPageQ @@ totalsQ @@ triggerQ
       ELSE pageQ @@ perPageQ @@ totalsQ

\* the query string of the URL a list handler fetches: auth0_list_actions
\* builds apiUrl from its URLSearchParams but fetches simpleApiUrl, which
\* has no query string
queryOf(tool, params) ==
    IF tool \notin ListTools \/ tool = "auth0_list_actions" THEN <<>>
    ELSE searchParams(tool, params)

\* the success text: title, header and rows, the pagination lines, the notes
listText(tool, body, params) ==
    LET t == listTable(tool, body.n) IN
    SubSeq(t, 1, 3 + body.n) \o paginationLines(tool, body, params)
        \o SubSeq(t, 4 + body.n, Len(t))

\* `await response.json()` rejects on a body that is not JSON; the rejection
\* lands in the handler's `catch (fetchError)` block
malformedBody == createErrorResponse(<<Line("network", "SyntaxError")>>)

\* a list handler that accepts the named array only
parseNamedArrayOnly(tool, body, params) ==
    IF body.shape = "malformed" THEN malformedBody
    ELSE IF body.shape = "null"
    THEN createErrorResponse(<<Line("network", "TypeError")>>)
    ELSE IF body.shape = "object" /\ body.field = arrayField(tool)
         THEN successResponse(listText(tool, body, params))
         ELSE createErrorResponse(<<Line("invalidFormat", arrayField(tool))>>)

\* a list handler that accepts a bare array or the named array
parseEitherShape(tool, body, params) ==
    IF body.shape = "malformed" THEN malformedBody
    ELSE IF body.shape = "array" \/ (body.shape = "object" /\ body.field = arrayField(tool))
    THEN IF body.n = 0
         THEN successResponse(<<Line("noResults", tool)>>)
         ELSE successResponse(listText(tool, body, params))
    ELSE createErrorResponse(<<Line("invalidFormat", arrayField(tool))>>)

\* the success branch of a list or search handler
parseList(tool, body, params) ==
    IF tool \in NamedArrayOnly
    THEN parseNamedArrayOnly(tool, body, params)
    ELSE parseEitherShape(tool, body, params)

\* the success branch of the other handlers: the delete handlers do not
\* read the body; the others read properties of the parsed JSON
NoBodyTools ==
    {"auth0_delete_application", "auth0_delete_resource_server", "auth0_delete_action",
     "auth0_delete_form"}

formatOne(tool, body) ==
    IF tool \notin NoBodyTools /\ body.shape = "malformed" THEN malformedBody
    ELSE IF tool \notin NoBodyTools /\ body.shape = "null"
    THEN createErrorResponse(<<Line("network", "TypeError")>>)
    ELSE successResponse(<<Line("details", tool)>>)

\* strings as sequences of characters
DomainChars == {"a", "b", "."}

DomainStrings == UNION { [1..n -> DomainChars] : n \in 0..MaxDomainLen }

\* '.us.auth0.com'
DomainSuffix == <<".", "u", "s", ".", "a", "u", "t", "h", "0", ".", "c", "o", "m">>

\* domain.includes(c)
includes(domain, c) == \E i \in DOMAIN domain : domain[i] = c

NoFormat == [input |-> <<>>, once |-> <<>>, value |-> <<>>, times |-> 0]

\* a formatDomain that appends the suffix whatever the domain
formatDomain_always(domain) == domain \o DomainSuffix

\* formatDomain(domain)
formatDomain(domain) == IF includes(domain, ".") THEN domain ELSE domain \o DomainSuffix

\* handleNetworkError(error)
handleNetworkError(err) ==
    IF err = "AbortError" THEN <<Line("timedOut", "")>>
    ELSE IF err \in {"ENOTFOUND", "ECONNREFUSED"} THEN <<Line("connectionFailed", err)>>
    ELSE IF err = "ECONNRESET" THEN <<Line("connectionReset", "")>>
    ELSE <<Line("network", err)>>

\* `${response.status} ${response.statusText}`
StatusText(status) == ToString(status)

\* the handlers that address one resource by an identifier, and the
\* parameter that carries it
ByIdTools ==
    {"auth0_get_application", "auth0_update_application", "auth0_delete_application",
     "auth0_get_resource_server", "auth0_update_resource_server",
     "auth0_delete_resource_server", "auth0_get_log",
     "auth0_get_action", "auth0_update_action", "auth0_delete_action",
     "auth0_deploy_action",
     "auth0_get_form", "auth0_update_form", "auth0_delete_form", "auth0_publish_form"}

idParam(tool) ==
    IF tool \in {"auth0_get_application", "auth0_update_application",
                 "auth0_delete_application"}
    THEN "client_id" ELSE "id"

\* a 404 text that does not carry the identifier
notFoundMessage_generic(tool, params) == <<Line("notFound", "resource")>>

\* `<Resource> with id '${id}' not found.`
notFoundMessage(tool, params) == <<Line("notFound", params[idParam(tool)])>>

\* the handlers whose 401 branch tells the user to run "auth0 login"; the
\* others only say the token might be expired, invalid or missing a scope
LoginHintTools ==
    {"auth0_list_applications", "auth0_list_resource_servers", "auth0_list_logs"}

\* the scope a handler's messages name
scopeOf(tool) ==
    CASE tool \in {"auth0_list_applications", "auth0_get_application",
                   "auth0_search_applications"} -> "read:clients"
      [] tool = "auth0_create_application" -> "create:clients"
      [] tool = "auth0_update_application" -> "update:clients"
      [] tool = "auth0_delete_application" -> "delete:clients"
      [] tool \in {"auth0_list_resource_servers", "auth0_get_resource_server"}
            -> "read:resource_servers"
      [] tool = "auth0_create_resource_server" -> "create:resource_servers"
      [] tool = "auth0_update_resource_server" -> "update:resource_servers"
      [] tool = "auth0_delete_resource_server" -> "delete:resource_servers"
      [] tool \in {"auth0_list_logs", "auth0_get_log", "auth0_search_logs"} -> "read:logs"
      [] tool \in {"auth0_list_actions", "auth0_get_action"} -> "read:actions"
      [] tool = "auth0_create_action" -> "create:actions"
      [] tool \in {"auth0_update_action", "auth0_deploy_action"} -> "update:actions"
      [] tool = "auth0_delete_action" -> "delete:actions"
      [] tool \in {"auth0_list_forms", "auth0_get_form"} -> "read:branding"
      [] tool = "auth0_create_form" -> "create:branding"
      [] tool \in {"auth0_update_form", "auth0_publish_form"} -> "update:branding"
      [] tool = "auth0_delete_form" -> "delete:branding"
      [] OTHER -> "none"

\* the statuses each handler's `if (!response.ok)` block has a branch for,
\* besides 401 (every handler) and 404 (the by-id handlers)
Has403(tool) == tool \in LoginHintTools \cup {"auth0_delete_resource_server"}
Has409(tool) == tool \in {"auth0_create_resource_server", "auth0_delete_action"}
Has422(tool) ==
    tool \in {"auth0_create_application", "auth0_create_resource_server",
              "auth0_update_resource_server", "auth0_create_action",
              "auth0_update_action", "auth0_deploy_action", "auth0_create_form",
              "auth0_update_form", "auth0_publish_form"}
Has429(tool) == tool \in {"auth0_list_applications", "auth0_list_resource_servers"}
Has5xx(tool) == tool \in {"auth0_list_applications", "auth0_list_resource_servers"}

\* the text of the `if (!response.ok)` block
statusMessage(tool, params, status) ==
    LET failed == <<Line("failed", StatusText(status))>> IN
    IF status = 404 /\ tool \in ByIdTools THEN notFoundMessage(tool, params)
    ELSE IF status = 401
         THEN failed \o <<Line("unauthorized",
                               IF tool \in LoginHintTools THEN "auth0 login"
                               ELSE scopeOf(tool))>>
    ELSE IF status = 403 /\ Has403(tool)
         THEN failed \o <<Line("forbidden",
                               IF tool \in LoginHintTools THEN scopeOf(tool)
                               ELSE "management api")>>
    ELSE IF status = 409 /\ Has409(tool) THEN failed \o <<Line("conflict", tool)>>
    ELSE IF status = 422 /\ Has422(tool) THEN failed \o <<Line("validation", tool)>>
    ELSE IF status = 429 /\ Has429(tool) THEN failed \o <<Line("rateLimited", tool)>>
    ELSE IF status >= 500 /\ Has5xx(tool) THEN failed \o <<Line("serverError", tool)>>
    ELSE IF status = 400 /\ tool = "auth0_list_actions"
         THEN failed \o <<Line("badRequest", "details")>>
    ELSE failed

\* request.parameters.secrets of auth0_update_action
secretsOf(tool, params) ==
    IF tool = "auth0_update_action" /\ "secrets" \in DOMAIN params
    THEN params["secrets"] ELSE <<>>

\* after the headers arrive the handler awaits response.text() on a
\* non-success status and response.json() on success (the delete handlers
\* read no success body)
readsBody(tool, status) == status # 200 \/ tool \notin NoBodyTools

\* what a handler invocation comes to
\*   requests: the HTTP requests issued; sent: the bearer token they carried
\*   blocked:  the await the handler is suspended at ("none": it returned)
\*   timer:    whether the abort timer is armed while it is suspended
Outcome(isError, text, requests, sent) ==
    [isError |-> isError, text |-> text, requests |-> requests, sent |-> sent,
     blocked |-> "none", timer |-> FALSE]

Suspended(at, timer, requests, sent) ==
    [isError |-> FALSE, text |-> <<>>, requests |-> requests, sent |-> sent,
     blocked |-> at, timer |-> timer]

\* a secrets loop that sends every secret twice
updateSecrets_twice(r, secrets, token, http) ==
    IF r.isError \/ Len(secrets) = 0 THEN Outcome(r.isError, r.text, 1, token)
    ELSE Outcome(FALSE, r.text \o <<Line("secretsUpdated", "")>>,
                 1 + 2 * Len(secrets), token)

\* auth0_update_action after its PATCH succeeded: one more PATCH per secret,
\* issued without an abort signal; a non-success status is logged and
\* ignored, a rejection is caught by the handler's network catch block
updateSecrets(r, secrets, token, http) ==
    IF r.isError \/ Len(secrets) = 0 THEN Outcome(r.isError, r.text, 1, token)
    ELSE IF http.stall = "secret" THEN Suspended("secret", FALSE, 2, token)
    ELSE IF http.secret = "rejected"
         THEN Outcome(TRUE, handleNetworkError("ECONNRESET"), 2, token)
         ELSE Outcome(FALSE, r.text \o <<Line("secretsUpdated", "")>>,
                      1 + Len(secrets), token)

\* One handler invocation: validate, fetch under a 15 s abort timer that is
\* cleared when the headers arrive, classify the status, read and format
\* the body.
runHandler(tool, params, token, domain, http) ==
    LET bad == validate(tool, params, domain) IN
    IF bad # <<>> THEN Outcome(TRUE, bad, 0, "")
    ELSE IF http.stall = "fetch" THEN Suspended("fetch", TRUE, 1, token)
    ELSE IF http.net # "ok" THEN Outcome(TRUE, handleNetworkError(http.net), 1, token)
    ELSE IF http.stall = "body" /\ readsBody(tool, http.status)
         THEN Suspended("body", FALSE, 1, token)
    ELSE IF http.status # 200
         THEN Outcome(TRUE, statusMessage(tool, params, http.status), 1, token)
    ELSE IF tool \in ListTools
         THEN LET r == parseList(tool, http.body, params) IN Outcome(r.isError, r.text, 1, token)
         ELSE updateSecrets(formatOne(tool, http.body), secretsOf(tool, params), token, http)

(***************************************************************************)
(* What the environment can answer.                                        *)
(***************************************************************************)
\* a response body without paging members
Body(shape, field, n) ==
    [shape |-> shape, field |-> field, n |-> n, total |-> 0, page |-> 0, per_page |-> 0]

NoBody == Body("null", "none", 0)

\* the pages of a tenant's collection: n items of page `page`, per_page to
\* a page, total in all; only the last page is short
Pagings ==
    { q \in [n : 0..MaxItems, total : 1..MaxTotal, page : 0..1, per_page : 1..MaxItems] :
        /\ q.n <= q.per_page
        /\ q.page * q.per_page + q.n <= q.total
        /\ q.n < q.per_page => q.page * q.per_page + q.n = q.total }

\* an object holding the named array with total, page and per_page
PagedBodies(tool) ==
    { [shape |-> "object", field |-> arrayField(tool), n |-> q.n, total |-> q.total,
       page |-> q.page, per_page |-> q.per_page] : q \in Pagings }

ListBodies(tool) ==
    { Body("array", "none", n) : n \in 0..MaxItems }
        \cup { Body("object", f, n) : f \in {arrayField(tool), "other"}, n \in 0..MaxItems }
        \cup { Body(sh, "none", 0) : sh \in {"null", "number", "string", "malformed"} }
        \cup PagedBodies(tool)

OneBodies == { Body(sh, "none", 0) : sh \in {"object", "null", "malformed"} }

\* the non-success statuses the API answers with
ErrorStatuses == {400, 401, 403, 404, 409, 418, 422, 429, 500, 503}

\* the fetch settles: it rejects, or a response arrives whose body can be read
HttpOutcomes(tool) ==
    [net : {"AbortError", "ECONNREFUSED", "ECONNRESET"}, status : {0}, body : {NoBody},
     stall : {"none"}, secret : {"ok"}]
        \cup [net : {"ok"}, status : ErrorStatuses, body : {NoBody},
              stall : {"none"}, secret : {"ok"}]
        \cup [net : {"ok"}, status : {200},
              body : IF tool \in ListTools THEN ListBodies(tool) ELSE OneBodies,
              stall : {"none"},
              secret : IF tool = "auth0_update_action"
                       THEN {"ok", "failed", "rejected"} ELSE {"ok"}]

\* the API goes silent: before it answers, after the headers, or during a
\* secret request
StallOutcomes(tool) ==
    [net : {"pending"}, status : {0}, body : {NoBody}, stall : {"fetch"}, secret : {"ok"}]
        \cup [net : {"ok"}, status : ErrorStatuses \cup {200}, body : {NoBody},
              stall : {"body"}, secret : {"ok"}]
        \cup (IF tool = "auth0_update_action"
              THEN [net : {"ok"}, status : {200},
                    body : {Body("object", "none", 0)},
                    stall : {"secret"}, secret : {"ok"}]
              ELSE {})

\* the parameter maps a client may send: any subset of the tool's required
\* fields, each empty or filled
ParamValues == {"", "x", "y"}

\* the `secrets` arrays a client may send to auth0_update_action
SecretLists == { [i \in 1..n |-> "SECRET"] : n \in 1..MaxSecrets }

RequiredMaps(tool) == UNION { [S -> ParamValues] : S \in SUBSET schemaRequired(tool) }

\* the optional paging and filter parameters of the list handlers, with the
\* value a client sends for each
PagingValues ==
    [page |-> 1, per_page |-> 2, include_totals |-> "false", trigger_id |-> "post-login"]

PagingFields(tool) ==
    IF tool = "auth0_list_actions" THEN {"page", "per_page", "include_totals", "trigger_id"}
    ELSE IF tool = "auth0_list_logs" THEN {"include_totals"}
    ELSE IF tool \in ListTools THEN {"page", "per_page", "include_totals"}
    ELSE {}

PagingMaps(tool) == { [f \in S |-> PagingValues[f]] : S \in SUBSET PagingFields(tool) }

ParamMaps(tool) ==
    { m @@ pg : m \in RequiredMaps(tool), pg \in PagingMaps(tool) }
        \cup (IF tool = "auth0_update_action"
              THEN { m @@ ("secrets" :> l) : m \in RequiredMaps(tool), l \in SecretLists }
              ELSE {})

Domains == {"acme", "acme.us.auth0.com"}

(***************************************************************************)
(* Configuration: config.ts                                                *)
(***************************************************************************)
NullConfig == [set |-> FALSE, token |-> "", domain |-> ""]
Auth0Config(token, domain) == [set |-> TRUE, token |-> token, domain |-> domain]

\* validateConfig(config)
validateConfig(c) == c.set /\ c.token # "" /\ c.domain # ""

\* getConfigFromCLI(): the token command, then the tenant list
getConfigFromCLI(cliToken, cliTenant) ==
    IF cliToken = "" THEN NullConfig
    ELSE IF cliTenant = "" THEN NullConfig
    ELSE Auth0Config(cliToken, cliTenant)

\* the config file as getConfigFromFiles finds it
FileConfigs ==
    [data : {"none", "noDefaultTenant", "tenantMissing"}, fresh : {FALSE},
     access_token : {""}, domain : {""}]
        \cup [data : {"tenant"}, fresh : BOOLEAN, access_token : {"", "tFile"},
              domain : {"", "acme.us.auth0.com"}]

\* getConfigFromFiles(); cliToken is what a further getTokenFromCLI() yields
getConfigFromFiles(file, cliToken) ==
    IF file.data # "tenant" THEN NullConfig
    ELSE IF ~file.fresh \/ file.access_token = ""
         THEN (IF cliToken = "" THEN NullConfig ELSE Auth0Config(cliToken, file.domain))
         ELSE Auth0Config(file.access_token, file.domain)

\* loadConfig(): the CLI first
loadConfig(cliToken, cliTenant, file, cliToken2) ==
    LET cliConfig == getConfigFromCLI(cliToken, cliTenant) IN
    IF cliConfig.set THEN cliConfig
    ELSE IF envToken # "" /\ envDomain # "" THEN Auth0Config(envToken, envDomain)
    ELSE getConfigFromFiles(file, cliToken2)

LoadInputs ==
    [cliToken : {"", "tCli"}, cliTenant : {""} \cup Domains, file : FileConfigs,
     cliToken2 : {"", "tCli"}]

load(in) == loadConfig(in.cliToken, in.cliTenant, in.file, in.cliToken2)

(***************************************************************************)
(* Server: server.ts, index.ts                                             *)
(***************************************************************************)
\* key: the member of the tools/call params that carries the parameter map
NoRequest ==
    [name |-> "", key |-> "none", params |-> <<>>, domain |-> "", awaiting |-> "none",
     timer |-> FALSE]

Request(name, key, params, domain) ==
    [name |-> name, key |-> key, params |-> params, domain |-> domain,
     awaiting |-> "handler", timer |-> FALSE]

\* `parameters: request.params.arguments || {}`
receivedParameters(req) == IF req.key = "arguments" THEN req.params ELSE <<>>

NoResp ==
    [op |-> "none", name |-> "", kind |-> "none", isError |-> FALSE, text |-> <<>>,
     tools |-> <<>>, requests |-> 0, sent |-> "", ran |-> FALSE, stale |-> FALSE,
     reloaded |-> FALSE, params |-> <<>>, domain |-> "", body |-> NoBody,
     status |-> 0, key |-> "none", supplied |-> <<>>, query |-> <<>>]

\* run(): startServer() loads and validates the configuration, registers the
\* handlers and connects; any throw ends in process.exit(1)
StartServer ==
    /\ srv = "init"
    /\ \E in \in LoadInputs, connects \in BOOLEAN :
         LET c == load(in) IN
         /\ config' = c
         /\ srv' = IF validateConfig(c) /\ connects THEN "running" ELSE "exited"
    /\ UNCHANGED <<envDomain, request, expired, resp>>
    /\ UNCHANGED <<tokenVars, formatted>>

\* the tools/list handler
ListToolsRequest ==
    /\ srv = "running"
    /\ request = NoRequest
    /\ resp' = [NoResp EXCEPT !.op = "list", !.kind = "tools", !.tools = TOOLS]
    /\ UNCHANGED <<envDomain, srv, config, request, expired>>
    /\ UNCHANGED <<tokenVars, formatted>>

toolResult(isError, text) ==
    [NoResp EXCEPT !.op = "call", !.kind = "toolResult", !.isError = isError, !.text = text]

\* the catch block of the tools/call handler
caught(name, message) ==
    [toolResult(TRUE, <<Line("Error", message)>>) EXCEPT !.name = name]

\* the try block after the configuration is settled
dispatch(name, params, c, http, stale, reloaded) ==
    LET base == [NoResp EXCEPT !.op = "call", !.name = name, !.stale = stale,
                               !.reloaded = reloaded, !.params = params,
                               !.key = request.key, !.supplied = request.params]
        found == handlerLookup(name)
    IN IF found = "handler"
       THEN LET r == runHandler(name, params, c.token, c.domain, http) IN
            [base EXCEPT !.kind = "toolResult", !.isError = r.isError, !.text = r.text,
                         !.requests = r.requests, !.sent = r.sent, !.ran = TRUE,
                         !.status = IF r.requests >= 1 /\ http.net = "ok"
                                    THEN http.status ELSE 0]
       ELSE IF found = "inheritedFunction"
            \* the call returns no HandlerResponse: result.toolResult is undefined
            THEN [base EXCEPT !.kind = "undefined", !.ran = TRUE]
            \* "HANDLERS[toolName] is not a function"
            ELSE [caught(name, "TypeError") EXCEPT !.stale = stale, !.reloaded = reloaded]

\* the transport writes the handler's result to the client
SendResponse ==
    /\ srv = "running"
    /\ resp # NoResp
    /\ resp' = NoResp
    /\ UNCHANGED <<envDomain, srv, config, request, expired>>
    /\ UNCHANGED <<tokenVars, formatted>>

\* a client sends tools/call; the previous response has been delivered
ToolNames ==
    HANDLERS \cup ObjectPrototypeFunctions \cup ObjectPrototypeObjects
        \cup {"auth0_no_such_tool"}

SendCallTool ==
    /\ srv = "running"
    /\ request = NoRequest
    /\ resp = NoResp
    /\ \E name \in ToolNames, key \in {"arguments", "parameters"} :
       \E params \in ParamMaps(name) :
         request' = Request(name, key, params, "")
    /\ resp' = NoResp
    /\ UNCHANGED <<envDomain, srv, config, expired>>
    /\ UNCHANGED <<tokenVars, formatted>>

\* the tools/call handler
CallToolRequest ==
    /\ srv = "running"
    /\ request # NoRequest
    /\ request' = NoRequest
    /\ \E http \in HttpOutcomes(request.name) :
         LET stale == config.token \in expired
             name == request.name
             params == receivedParameters(request)
         IN
         IF handlerLookup(name) = "undefined"
         THEN /\ resp' = caught(name, "Unknown tool")
              /\ config' = config
         ELSE IF validateConfig(config)
              THEN /\ resp' = dispatch(name, params, config, http, stale, FALSE)
                   /\ config' = config
              ELSE \E in \in LoadInputs :
                     /\ config' = load(in)
                     /\ resp' = IF validateConfig(load(in))
                                THEN dispatch(name, params, load(in), http, stale, TRUE)
                                ELSE [caught(name, "configuration invalid")
                                        EXCEPT !.stale = stale, !.reloaded = TRUE]
    /\ UNCHANGED <<envDomain, srv, expired>>
    /\ UNCHANGED <<tokenVars, formatted>>

\* the tenant stops accepting the token the server holds
ExpireToken ==
    /\ srv = "running"
    /\ config.token \notin expired
    /\ expired' = expired \cup {config.token}
    /\ UNCHANGED <<envDomain, srv, config, request, resp>>
    /\ UNCHANGED <<tokenVars, formatted>>

TokenIdle ==
    /\ cliPath = "unset"
    /\ tokenCache = NullCache
    /\ now = 0
    /\ ticks = 0
    /\ call = IdleCall
    /\ second = IdleCall

ServerInit ==
    /\ envToken \in {"", "tEnv"}
    /\ envDomain \in {"", "acme.us.auth0.com"}
    /\ srv = "init"
    /\ config = NullConfig
    /\ request = NoRequest
    /\ expired = {}
    /\ resp = NoResp
    /\ formatted = NoFormat
    /\ TokenIdle

ServerNext ==
    \/ StartServer
    \/ ListToolsRequest
    \/ SendCallTool
    \/ CallToolRequest
    \/ SendResponse
    \/ ExpireToken

ServerSpec == ServerInit /\ [][ServerNext]_vars

(***************************************************************************)
(* formatDomain, applied to any string.                                    *)
(***************************************************************************)
\* formatDomain is applied to what it returned
ApplyFormatDomain ==
    /\ formatted.times < MaxApplications
    /\ formatted' = [formatted EXCEPT
                        !.value = formatDomain(formatted.value),
                        !.once = IF formatted.times = 0
                                 THEN formatDomain(formatted.value) ELSE @,
                        !.times = @ + 1]
    /\ UNCHANGED <<envDomain, srv, config, request, expired, resp>>
    /\ UNCHANGED tokenVars

FormatInit ==
    /\ envToken = ""
    /\ envDomain = ""
    /\ srv = "init"
    /\ config = NullConfig
    /\ request = NoRequest
    /\ expired = {}
    /\ resp = NoResp
    /\ TokenIdle
    /\ \E d \in DomainStrings :
         formatted = [input |-> d, once |-> d, value |-> d, times |-> 0]

FormatNext == ApplyFormatDomain

FormatSpec == FormatInit /\ [][FormatNext]_vars

(***************************************************************************)
(* The handlers called directly, with any configuration.                   *)
(***************************************************************************)
DirectRequest ==
    /\ request = NoRequest
    /\ resp = NoResp
    /\ \E tool \in HANDLERS : \E params \in ParamMaps(tool), domain \in {""} \cup Domains :
         request' = Request(tool, "none", params, domain)
    /\ resp' = NoResp
    /\ UNCHANGED <<envDomain, srv, config, expired>>
    /\ UNCHANGED <<tokenVars, formatted>>

\* what a direct call returned
directResponse(r, http) ==
    [NoResp EXCEPT !.op = "direct", !.name = request.name, !.kind = "toolResult",
                   !.isError = r.isError, !.text = r.text,
                   !.requests = r.requests, !.sent = r.sent, !.ran = TRUE,
                   !.params = request.params, !.domain = request.domain,
                   !.body = IF http.net = "ok" /\ http.status = 200
                            THEN http.body ELSE NoBody,
                   !.status = IF r.requests >= 1 /\ http.net = "ok"
                              THEN http.status ELSE 0,
                   !.query = IF r.requests >= 1
                             THEN queryOf(request.name, request.params) ELSE <<>>]

\* the handler runs until it returns or until an await that never settles
DirectCall ==
    /\ request.awaiting = "handler"
    /\ \E http \in HttpOutcomes(request.name) \cup StallOutcomes(request.name) :
         LET r == runHandler(request.name, request.params, "tEnv", request.domain, http) IN
         IF r.blocked = "none"
         THEN /\ request' = NoRequest
              /\ resp' = directResponse(r, http)
         ELSE /\ request' = [request EXCEPT !.awaiting = r.blocked, !.timer = r.timer]
              /\ resp' = resp
    /\ UNCHANGED <<envDomain, srv, config, expired>>
    /\ UNCHANGED <<tokenVars, formatted>>

\* setTimeout(() => controller.abort(), 15000) fires while the fetch is
\* pending: the fetch rejects with an AbortError
FetchTimeout ==
    /\ request.awaiting \in {"fetch", "body", "secret"}
    /\ request.timer
    /\ resp' = directResponse(Outcome(TRUE, handleNetworkError("AbortError"), 1, "tEnv"),
                              [net |-> "AbortError", status |-> 0, body |-> NoBody])
    /\ request' = NoRequest
    /\ UNCHANGED <<envDomain, srv, config, expired>>
    /\ UNCHANGED <<tokenVars, formatted>>

\* the caller has taken the HandlerResponse the handler returned
DirectReturn ==
    /\ resp.op = "direct"
    /\ resp' = NoResp
    /\ UNCHANGED <<envDomain, srv, config, request, expired>>
    /\ UNCHANGED <<tokenVars, formatted>>

HandlerInit ==
    /\ envToken = ""
    /\ envDomain = ""
    /\ srv = "init"
    /\ config = NullConfig
    /\ request = NoRequest
    /\ expired = {}
    /\ resp = NoResp
    /\ formatted = NoFormat
    /\ TokenIdle

HandlerNext ==
    \/ DirectRequest
    \/ DirectCall
    \/ FetchTimeout
    \/ DirectReturn

HandlerSpec == HandlerInit /\ [][HandlerNext]_vars

\* a handler that has been called runs, and an armed timer fires
HandlerFairSpec == HandlerSpec /\ WF_vars(DirectCall) /\ WF_vars(FetchTimeout)

ServerIdle ==
    /\ envDomain = ""
    /\ srv = "init"
    /\ config = NullConfig
    /\ request = NoRequest
    /\ expired = {}
    /\ resp = NoResp
    /\ formatted = NoFormat

TokenInit ==
    /\ envToken \in {"", "tEnv"}
    /\ cliPath \in {"unset", "missing", "exists"}
    /\ tokenCache = NullCache
    /\ now = 0
    /\ ticks = 0
    /\ call = IdleCall
    /\ second = IdleCall
    /\ ServerIdle

TokenNext ==
    \/ getToken(FALSE)
    \/ getToken(TRUE)
    \/ getTokenLocal
    \/ getTokenPath
    \/ getTokenConfig
    \/ Tick

TokenSpec == TokenInit /\ [][TokenNext]_vars

(***************************************************************************)
(* Two callers of getToken.  getToken is an async function: a call made    *)
(* while another is suspended at an await runs up to its own first await.  *)
(***************************************************************************)
\* the record of the other caller's call that starts now
SecondCall(force) ==
    [IdleCall EXCEPT !.pc = "start", !.force = force,
                     !.cacheBefore = tokenCache, !.at = now]

\* getToken(forceRefresh), lines 23-43, entered by the other caller
secondGetToken(forceRefresh) ==
    /\ second.pc = "idle"
    /\ call.pc # "idle"
    /\ LET c == SecondCall(forceRefresh) IN
       IF envToken # "" /\ ~forceRefresh
       THEN second' = Returned(c, envToken)
       ELSE IF ~forceRefresh /\ cacheValid(tokenCache, now)
            THEN second' = Returned(c, tokenCache.token)
            ELSE second' = [c EXCEPT !.pc = IF cliPath = "exists" THEN "local" ELSE "path"]
    /\ UNCHANGED <<envToken, cliPath, tokenCache, now, ticks, call>>
    /\ UNCHANGED serverVars

\* the other caller's CLI attempt settles (lines 38-66)
secondAttempt(src, p, next) ==
    LET r == getTokenWithTimeout(p)
        t == now + r.elapsed
        c == TriedCommand(second, src, p, r)
    IN /\ r.elapsed > 0 => ticks < MaxTicks
       /\ now' = t
       /\ ticks' = IF r.elapsed > 0 THEN ticks + 1 ELSE ticks
       /\ IF r.settled = "resolve" /\ r.value # ""
          THEN /\ tokenCache' = cacheToken(r.value, t)
               /\ second' = Returned(c, r.value)
          ELSE /\ tokenCache' = tokenCache
               /\ second' = [c EXCEPT !.pc = next]
       /\ UNCHANGED <<envToken, cliPath, call>>
       /\ UNCHANGED serverVars

secondLocal ==
    /\ second.pc = "local"
    /\ \E p \in ProcOutcomes("tLocal\n") : secondAttempt("local", p, "path")

secondPath ==
    /\ second.pc = "path"
    /\ \E p \in ProcOutcomes("tPath\n") : secondAttempt("path", p, "config")

\* the other caller's Method 3 (lines 67-81)
secondConfig ==
    /\ second.pc = "config"
    /\ \E files \in [1..2 -> FileStates] :
         LET configToken == extractTokenFromConfig(files)
             c == [Tried(second, "config", configToken) EXCEPT !.stale = staleFrom(files, 1)]
         IN IF configToken # ""
            THEN /\ tokenCache' = cacheToken(configToken, now)
                 /\ second' = Returned(c, configToken)
            ELSE /\ tokenCache' = tokenCache
                 /\ second' = [c EXCEPT !.pc = "done", !.threw = TRUE]
    /\ UNCHANGED <<envToken, cliPath, now, ticks, call>>
    /\ UNCHANGED serverVars

\* each caller makes one call
ConcurrentNext ==
    \/ (call.pc = "idle" /\ getToken(FALSE))
    \/ (call.pc = "idle" /\ getToken(TRUE))
    \/ getTokenLocal
    \/ getTokenPath
    \/ getTokenConfig
    \/ secondGetToken(FALSE)
    \/ secondGetToken(TRUE)
    \/ secondLocal
    \/ secondPath
    \/ secondConfig

ConcurrentSpec == TokenInit /\ [][ConcurrentNext]_vars

(***************************************************************************)
(* Claims about the token service (checked under TokenSpec).               *)
(***************************************************************************)
Finished == call.pc = "done"

\* the call was answered by the source chain, not by the environment or the cache
WentToChain ==
    /\ ~(envToken # "" /\ ~call.force)
    /\ ~(~call.force /\ Unexpired(call.cacheBefore, call.at))

\* the sources of the chain in the order the claim gives
ChainOrder == (IF cliPath = "exists" THEN <<"local">> ELSE <<>>) \o <<"path", "config">>

\* C5 (as stated): two getToken(false) calls made while the cached entry is
\* unexpired return the identical cached token; the second spawns no
\* subprocess and reads no config file.
C5_TwoCallsReturnCachedToken ==
    (Finished /\ ~call.force /\ call.prevHit /\ Unexpired(call.cacheBefore, call.at))
        => /\ call.result = call.prevResult
           /\ call.result = call.cacheBefore.token
           /\ call.tried = <<>>

\* C5 (amended): two getToken(false) calls made while the cached entry is
\* unexpired return the identical token, which is the cached token when
\* AUTH0_TOKEN is unset and the environment token when it is set; the second
\* call spawns no subprocess, reads no config file and leaves the cache alone.
C5_TwoCallsReturnSameToken ==
    (Finished /\ ~call.force /\ call.prevHit /\ Unexpired(call.cacheBefore, call.at))
        => /\ call.result = call.prevResult
           /\ call.result = (IF envToken # "" THEN envToken ELSE call.cacheBefore.token)
           /\ call.tried = <<>>
           /\ ~call.threw
           /\ tokenCache = call.cacheBefore

C5_Witness ==
    /\ Finished /\ ~call.force /\ call.prevHit
    /\ Unexpired(call.cacheBefore, call.at)
    /\ envToken = ""
    /\ call.at > 0
    /\ call.result = call.cacheBefore.token

\* C6: getToken(true) never answers from the cache: it starts the chain at
\* its first source, even with an unexpired entry, and returns what the chain
\* yields.
C6_ForceRefreshBypassesCache ==
    (Finished /\ call.force)
        => /\ Len(call.tried) >= 1
           /\ call.tried[1].src = ChainOrder[1]
           /\ IF call.tried[Len(call.tried)].res # ""
              THEN ~call.threw /\ call.result = call.tried[Len(call.tried)].res
              ELSE call.threw

C6_Witness ==
    /\ Finished /\ call.force /\ ~call.threw
    /\ Unexpired(call.cacheBefore, call.at)
    /\ call.result # call.cacheBefore.token

\* C8: outside the environment and cache answers, getToken tries the CLI at
\* AUTH0_CLI_PATH (only if set and existing), then `auth0` from PATH, then
\* the config files; it returns the first non-empty token, tries nothing
\* after it, and throws when every source fails.
C8_SourceOrder ==
    (Finished /\ WentToChain)
        => LET n == Len(call.tried) IN
           /\ n >= 1 /\ n <= Len(ChainOrder)
           /\ \A i \in 1..n : call.tried[i].src = ChainOrder[i]
           /\ \A i \in 1..(n - 1) : call.tried[i].res = ""
           /\ IF call.tried[n].res # ""
              THEN ~call.threw /\ call.result = call.tried[n].res
              ELSE n = Len(ChainOrder) /\ call.threw

C8_Witness ==
    /\ Finished /\ WentToChain /\ ~call.threw
    /\ Len(call.tried) = 3
    /\ call.tried[1].src = "local"
    /\ call.result = call.tried[3].res

(***************************************************************************)
(* Claims about the server                                                 *)
(***************************************************************************)
CallAnswered == resp.op = "call"

\* C1: every tools/call, whatever the tool name, the parameters, the
\* credential state and the handler's outcome, ends with a returned
\* toolResult whose isError is true or false, and the server keeps running.
C1_EveryCallReturnsToolResult ==
    CallAnswered =>
        /\ resp.kind = "toolResult"
        /\ resp.isError \in BOOLEAN
        /\ srv = "running"

\* C2: a tools/call whose tool name has no entry in HANDLERS returns a
\* toolResult with isError = true and the text 'Unknown tool: <name>',
\* runs no handler and issues no HTTP request.
C2_UnknownToolIsReported ==
    (CallAnswered /\ resp.name \notin HANDLERS) =>
        /\ resp.kind = "toolResult"
        /\ resp.isError
        /\ resp.text = <<Line("Error", "Unknown tool")>>
        /\ ~resp.ran
        /\ resp.requests = 0

\* C3: when no credential source yields a token and a domain, the server
\* process keeps running after start-up (it answers tools/list and answers
\* every tools/call with an error); the failure never ends the process.
C3_NoCredentialKeepsServing ==
    (srv # "init" /\ (config.token = "" \/ config.domain = "")) => srv = "running"

\* C4: before every handler invocation the dispatcher re-validates the
\* credential; a handler never runs with a token that had expired when the
\* request arrived unless the configuration was reloaded first.
C4_ExpiredTokenIsRefreshed ==
    (CallAnswered /\ resp.ran /\ resp.stale) => resp.reloaded

\* C7: when AUTH0_TOKEN and AUTH0_DOMAIN are both set, the configuration the
\* server resolves is the environment's, in preference to every other source.
C7_EnvironmentWins ==
    (srv = "running" /\ envToken # "" /\ envDomain # "") =>
        /\ config.token = envToken
        /\ config.domain = envDomain

(***************************************************************************)
(* Claims about the handlers                                               *)
(***************************************************************************)
DirectAnswered == resp.op = "direct"

Missing(params, f) == f \notin DOMAIN params \/ params[f] = ""

MissingRequired(tool, params) == { f \in schemaRequired(tool) : Missing(params, f) }

\* C9: every handler, called without a domain or with a required parameter
\* missing or empty, returns isError = true with a message naming a missing
\* field, and issues no HTTP request.
C9_MissingFieldIsReported ==
    (DirectAnswered /\ (resp.domain = "" \/ MissingRequired(resp.name, resp.params) # {})) =>
        /\ resp.isError
        /\ resp.requests = 0
        /\ Len(resp.text) = 1
        /\ \/ resp.text[1].k = "notSet" /\ resp.domain = ""
           \/ /\ resp.text[1].k = "required"
              /\ resp.text[1].v \in MissingRequired(resp.name, resp.params)

C9_Witness ==
    /\ DirectAnswered
    /\ resp.name = "auth0_create_action"
    /\ resp.domain = "acme"
    /\ MissingRequired(resp.name, resp.params) = {"code"}
    /\ "code" \in DOMAIN resp.params
    /\ resp.isError
    /\ resp.text = <<Line("required", "code")>>
    /\ resp.requests = 0

RowCount(text) == Cardinality({ i \in DOMAIN text : text[i].k = "row" })

HasHeader(text) ==
    \E i \in DOMAIN text :
        /\ text[i].k = "header"
        /\ i + 1 \in DOMAIN text
        /\ text[i + 1].k = "separator"

\* the response was a bare array of n items or an object holding the
\* family's named array of n items
ItemsReceived(tool, body) ==
    /\ body.n >= 1
    /\ \/ body.shape = "array"
       \/ body.shape = "object" /\ body.field = arrayField(tool)

\* C10: every list and search handler, given a successful response that is
\* a bare array of N items or an object with the family's named array of N
\* items (N >= 1), returns isError = false with a table header and exactly
\* N data rows.
C10_ListReturnsTable ==
    (DirectAnswered /\ resp.name \in ListTools /\ resp.requests = 1
        /\ ItemsReceived(resp.name, resp.body)) =>
        /\ ~resp.isError
        /\ HasHeader(resp.text)
        /\ RowCount(resp.text) = resp.body.n

\* the response was a bare array or the family's named array, with no items
NoItemsReceived(tool, body) ==
    /\ body.n = 0
    /\ \/ body.shape = "array"
       \/ body.shape = "object" /\ body.field = arrayField(tool)

\* C11: every list and search handler, given a successful response that
\* holds zero items, returns isError = false with a 'no results' message and
\* emits no table, not even a header.
C11_ZeroItemsNoTable ==
    (DirectAnswered /\ resp.name \in ListTools /\ resp.requests = 1
        /\ NoItemsReceived(resp.name, resp.body)) =>
        /\ ~resp.isError
        /\ resp.text = <<Line("noResults", resp.name)>>
        /\ ~HasHeader(resp.text)

\* the handler issued its request and the API answered with this status
Answered(status) == DirectAnswered /\ resp.requests >= 1 /\ resp.status = status

HasLine(text, k) == \E i \in DOMAIN text : text[i].k = k

\* C12: every handler, given an HTTP 401 response, returns isError = true
\* with text that tells the user to re-authenticate (to run `auth0 login`).
C12_UnauthorizedGivesLoginGuidance ==
    Answered(401) =>
        /\ resp.isError
        /\ \E i \in DOMAIN resp.text :
             resp.text[i] = Line("unauthorized", "auth0 login")

\* C13: for every get, update, delete, deploy and publish handler, an HTTP
\* 404 response yields isError = true with a message that contains the
\* identifier value the caller passed.
C13_NotFoundNamesIdentifier ==
    (Answered(404) /\ resp.name \in ByIdTools) =>
        /\ resp.isError
        /\ \E i \in DOMAIN resp.text :
             /\ resp.text[i].k = "notFound"
             /\ resp.text[i].v = resp.params[idParam(resp.name)]

C13_Witness ==
    /\ Answered(404)
    /\ resp.name = "auth0_publish_form"
    /\ resp.params["id"] = "y"
    /\ resp.isError
    /\ resp.text = <<Line("notFound", "y")>>

\* the category the claim assigns to a status
CategoryOf(status) ==
    CASE status = 403 -> "forbidden"
      [] status = 409 -> "conflict"
      [] status = 422 -> "validation"
      [] status = 429 -> "rateLimited"
      [] status >= 500 -> "serverError"
      [] OTHER -> "failed"

\* C14: for every handler, a non-success HTTP status yields isError = true
\* and a text of the status's category: 403 forbidden, naming the required
\* scope; 409 conflict; 422 validation error; 429 rate limited; 500 and above
\* upstream server error; any other code (401 and 404 have their own rules)
\* the generic 'Failed to <operation>: <status>' message.
C14_StatusIsClassified ==
    (DirectAnswered /\ resp.requests >= 1 /\ resp.status \in ErrorStatuses \ {401, 404}) =>
        /\ resp.isError
        /\ HasLine(resp.text, CategoryOf(resp.status))
        /\ resp.status = 403 =>
             \E i \in DOMAIN resp.text : resp.text[i] = Line("forbidden", scopeOf(resp.name))
        /\ CategoryOf(resp.status) = "failed" =>
             \E i \in DOMAIN resp.text :
                resp.text[i] = Line("failed", StatusText(resp.status))

\* C15: every handler invocation eventually returns: when the API never
\* responds, or stalls after sending its headers, the abort timer ends the
\* request and the handler returns; no request of a handler waits without a
\* timer.
C15_HandlerEventuallyReturns == (request.awaiting = "handler") ~> (request = NoRequest)

\* C16: the parameter map a client sends in tools/call, under `parameters`
\* or under `arguments`, is the map the handler receives; a supplied map is
\* never replaced by an empty map.
C16_HandlerReceivesSuppliedMap ==
    (CallAnswered /\ resp.ran /\ resp.name \in HANDLERS) => resp.params = resp.supplied

Dotted(d) == \E i \in 1..Len(d) : d[i] = "."

\* C17: formatDomain is idempotent - applying it again to its result changes
\* nothing; a domain that contains a dot is returned unchanged; a domain
\* without a dot gets '.us.auth0.com' appended exactly once.
C17_FormatDomainIdempotent ==
    formatted.times >= 1 =>
        /\ formatted.value = formatted.once
        /\ Dotted(formatted.input) => formatted.once = formatted.input
        /\ ~Dotted(formatted.input) =>
             /\ Len(formatted.value) = Len(formatted.input) + Len(DomainSuffix)
             /\ SubSeq(formatted.value, 1, Len(formatted.input)) = formatted.input
             /\ SubSeq(formatted.value, Len(formatted.input) + 1, Len(formatted.value))
                    = DomainSuffix

C17_Witness ==
    /\ formatted.times = 2
    /\ formatted.input = <<"a", "b">>
    /\ formatted.value = <<"a", "b">> \o DomainSuffix

HandlerRecords ==
    <<APPLICATION_HANDLERS, RESOURCE_SERVER_HANDLERS, ACTION_HANDLERS, LOG_HANDLERS,
      FORM_HANDLERS>>

\* C18: every tool name returned by tools/list is unique in the catalog and
\* has exactly one handler in HANDLERS, so a listed tool is never answered
\* with 'Unknown tool'; the catalog is the concatenation of the applications,
\* resource-server, action, log and form tool lists.
C18_CatalogMatchesHandlers ==
    resp.op = "list" =>
        /\ resp.tools = APPLICATION_TOOLS \o RESOURCE_SERVER_TOOLS \o ACTION_TOOLS
                            \o LOG_TOOLS \o FORM_TOOLS
        /\ \A i, j \in DOMAIN resp.tools : resp.tools[i] = resp.tools[j] => i = j
        /\ \A i \in DOMAIN resp.tools :
             /\ Cardinality({ f \in DOMAIN HandlerRecords :
                                resp.tools[i] \in HandlerRecords[f] }) = 1
             /\ resp.tools[i] \in HANDLERS
             /\ handlerLookup(resp.tools[i]) = "handler"

C18_Witness ==
    /\ resp.op = "list"
    /\ Len(resp.tools) = 26
    /\ resp.tools[26] = "auth0_publish_form"

\* C19 (as stated): each tools/call results in at most one outbound HTTP
\* request, whatever the tool and its parameters.
C19_AtMostOneRequest == CallAnswered => resp.requests <= 1

\* C19 (amended): each tools/call results in at most one outbound HTTP
\* request, except auth0_update_action called with secrets, which after a
\* successful update sends one more request per secret; a request that
\* failed is never issued again in the same invocation.
C19_AtMostOneRequestPlusSecrets ==
    CallAnswered =>
        /\ resp.requests <= 1 + Len(secretsOf(resp.name, resp.params))
        /\ (resp.requests >= 1 /\ resp.status # 200) => resp.requests = 1

C19_Witness ==
    /\ CallAnswered
    /\ resp.name = "auth0_update_action"
    /\ Len(secretsOf(resp.name, resp.params)) = 2
    /\ resp.status = 200
    /\ resp.requests = 3
    /\ ~resp.isError

Commands == {"local", "path"}

TimesTried(src) == Cardinality({ i \in DOMAIN call.tried : call.tried[i].src = src })

\* C20: a token CLI command that has not closed when its 10 s timer fires is
\* killed, its source counts as failed, the command is not run again in that
\* resolution and the next source is tried; a command that closes or errors
\* before the timer is never killed, and every attempt is settled once.
C20_TimedOutCommandIsKilledOnce ==
    Finished =>
        /\ call.killed = call.timedOut
        /\ \A src \in Commands : TimesTried(src) <= 1
        /\ \A i \in DOMAIN call.tried :
             call.tried[i].src \in call.timedOut =>
                /\ call.tried[i].res = ""
                /\ i < Len(call.tried)
                /\ call.tried[i + 1].src = ChainOrder[i + 1]

C20_Witness ==
    /\ Finished
    /\ call.timedOut = {"local"}
    /\ call.killed = {"local"}
    /\ Len(call.tried) = 2
    /\ call.tried[2].src = "path"
    /\ call.result = "tPath"
    /\ now - call.at = DEFAULT_TIMEOUT_MS

\* a step in which getToken returns a token it obtained from a source of the chain
ObtainedFromSource ==
    /\ call.pc \in {"local", "path", "config"}
    /\ call'.pc = "done"
    /\ ~call'.threw

\* C21: whenever getToken obtains a token from a CLI source or a config file
\* it replaces the whole cache entry with that token and an expiry 55 minutes
\* after the write, before returning and whichever source produced it; the
\* cached token is never empty.
C21_ObtainedTokenIsCachedFresh ==
    /\ [](tokenCache.set => tokenCache.token # "")
    /\ [][ObtainedFromSource =>
            /\ call'.result # ""
            /\ tokenCache' = [set |-> TRUE, token |-> call'.result,
                              expiresAt |-> now' + 55 * 60 * 1000]]_vars

C21_Witness ==
    /\ Finished /\ ~call.threw
    /\ call.cacheBefore.set
    /\ call.cacheBefore.token = "tLocal"
    /\ Len(call.tried) = 3
    /\ call.tried[1].src \in call.timedOut
    /\ call.result = "tTenant"
    /\ tokenCache.token = "tTenant"
    /\ tokenCache.expiresAt = call.at + DEFAULT_TIMEOUT_MS + 55 * 60 * 1000

\* the entry the call found had reached its expiry when the call started
FoundExpired == call.cacheBefore.set /\ call.at >= call.cacheBefore.expiresAt

Resolving(c) == c.pc \in {"local", "path", "config"}

\* the call is awaiting a token subprocess
AwaitingSubprocess(c) == c.pc \in {"local", "path"}

C24_NoExpiredTokenReturned ==
    (Finished /\ ~call.threw) => ~call.stale

\* the kinds of line handleNetworkError produces
NetworkLines == {"timedOut", "connectionFailed", "connectionReset", "network"}

\* C25: a failed fetch is reported with isError = true and one of the
\* messages handleNetworkError classifies it into (timed out, connection
\* failed, connection reset, or 'Network error: ...'), and a failure that is
\* not a network failure, such as a malformed response body, is never
\* reported with a network-error message.
C25_OnlyNetworkFailuresAreNetworkErrors ==
    (DirectAnswered /\ resp.requests = 1) =>
        /\ resp.status = 0 =>
             /\ resp.isError
             /\ Len(resp.text) = 1
             /\ resp.text[1].k \in NetworkLines
        /\ resp.status # 0 =>
             \A i \in DOMAIN resp.text : resp.text[i].k \notin NetworkLines

\* a successful response whose JSON body has neither of the two list shapes
NeitherShape(tool, body) ==
    \/ body.shape \in {"null", "number", "string"}
    \/ body.shape = "object" /\ body.field # arrayField(tool)

\* C26: every list and search handler, given a successful response whose
\* JSON body is neither a bare array nor an object holding the family's
\* named array (null, a number, a string, an object without the field),
\* returns isError = true with an invalid-response-format message.
C26_OtherShapesAreInvalidFormat ==
    (DirectAnswered /\ resp.name \in ListTools /\ resp.requests = 1 /\ resp.status = 200
        /\ NeitherShape(resp.name, resp.body)) =>
        /\ resp.isError
        /\ resp.text = <<Line("invalidFormat", arrayField(resp.name))>>

\* a list or search handler returned its table for a response of one of the
\* two list shapes
ListSucceeded ==
    /\ DirectAnswered /\ resp.name \in ListTools /\ resp.requests = 1
    /\ resp.status = 200 /\ ~resp.isError
    /\ ItemsReceived(resp.name, resp.body)

\* the returned slice is smaller than the total the response reports
SliceBelowTotal(body) == body.total # 0 /\ body.n < body.total

\* C27: a list or search handler's success text contains a pagination hint
\* exactly when the returned slice is smaller than the known total, and the
\* hint contains a next-page invocation whose page argument is the number
\* of the next page (current page + 1).
C27_PaginationHintNamesNextPage ==
    ListSucceeded =>
        /\ HasLine(resp.text, "page") <=> SliceBelowTotal(resp.body)
        /\ SliceBelowTotal(resp.body) =>
             \E i \in DOMAIN resp.text :
                resp.text[i] = Line("nextPage", ToString(resp.body.page + 1))

\* auth0_update_action was called with secrets and its primary PATCH succeeded
PrimaryUpdateSucceeded ==
    /\ DirectAnswered /\ resp.name = "auth0_update_action"
    /\ resp.status = 200 /\ resp.body.shape = "object"
    /\ secretsOf(resp.name, resp.params) # <<>>

\* C28: in auth0_update_action the per-secret requests are issued only after
\* the primary PATCH has succeeded, and they are best-effort: whether a secret
\* request succeeds, answers an error status or fails at the network level,
\* the outcome stays isError = false for the successful primary update.
C28_SecretFailuresAreIgnored ==
    /\ (DirectAnswered /\ resp.name = "auth0_update_action" /\ resp.requests > 1)
            => resp.status = 200
    /\ PrimaryUpdateSucceeded => ~resp.isError

\* what `x.toString()` makes of a supplied paging value
SentAs(params, f) ==
    IF f \in {"page", "per_page"} THEN ToString(params[f]) ELSE params[f]

\* the families whose default page size is 5
PerPageFive ==
    {"auth0_list_applications", "auth0_list_resource_servers", "auth0_list_actions"}

\* the query key under which a parameter travels
QueryKey(f) == IF f = "trigger_id" THEN "triggerId" ELSE f

\* C29: every list handler puts the caller's paging and filter parameters
\* into the request it issues: a supplied page, per_page, include_totals
\* (and trigger_id for auth0_list_actions) is sent with the caller's value,
\* and an omitted per_page or include_totals is sent with the family default
\* (per_page = 5 for applications, resource servers and actions;
\* include_totals = true).
C29_PagingParametersAreSent ==
    (DirectAnswered /\ resp.name \in ListTools /\ resp.requests >= 1) =>
        LET q == resp.query
            p == resp.params
        IN /\ \A f \in PagingFields(resp.name) \cap DOMAIN p :
                /\ QueryKey(f) \in DOMAIN q
                /\ q[QueryKey(f)] = SentAs(p, f)
           /\ ("per_page" \notin DOMAIN p /\ resp.name \in PerPageFive) =>
                ("per_page" \in DOMAIN q /\ q["per_page"] = "5")
           /\ "include_totals" \notin DOMAIN p =>
                ("include_totals" \in DOMAIN q /\ q["include_totals"] = "true")

\* the call threw after every source failed
AllSourcesFailed == Finished /\ call.threw

\* the call was answered by the environment token or by the cached entry
AnsweredWithoutSource == Finished /\ ~call.threw /\ call.tried = <<>>

\* C30: a getToken call that throws because every source failed, and a call
\* that returns the environment token or the cached token, leave the cache
\* entry exactly as it was before the call; a failed forced refresh neither
\* clears nor alters a still-valid entry.
C30_CacheUntouchedWithoutNewToken ==
    (AllSourcesFailed \/ AnsweredWithoutSource) => tokenCache = call.cacheBefore

C30_Witness ==
    /\ AllSourcesFailed
    /\ call.force
    /\ Unexpired(call.cacheBefore, call.at)
    /\ Len(call.tried) = 3
    /\ tokenCache = call.cacheBefore
    /\ tokenCache.token = "tPath"

====
